---- MODULE Spec2Model ----
(***************************************************************************)
(* Lazy graph construction and compilation of heronpy.dsl Streamlets       *)
(* (src/heronpy/dsl/impl/streamlet_impl.py).                               *)
(*                                                                         *)
(* Nodes are created by the factory methods (map, filter, join) and by a   *)
(* source factory; Streamlet.run then validates its arguments, creates a   *)
(* TopologyBuilder, walks the parents depth first (_build), resolves each  *)
(* node's parallelism and stage name, records the name, emits the node     *)
(* (_build_this), applies the configuration and submits.                   *)
(***************************************************************************)
EXTENDS Integers, Sequences, FiniteSets, TLC

\* ---- bounds of the model ------------------------------------------------
MaxNodes == 3
MaxPar == 2
MaxRuns == 2

\* ---- Python values ------------------------------------------------------
\* An optional attribute is None (the empty tuple) or Some(v).
None == << >>
Some(v) == <<v>>

\* A Python argument of run: its type and its printed value.
PyNone == [type |-> "NoneType", val |-> "None"]
PyStr(s) == [type |-> "str", val |-> s]
PyInt(s) == [type |-> "int", val |-> s]
PyDict == [type |-> "dict", val |-> "{}"]
PyList == [type |-> "list", val |-> "[1, 2]"]
\* A Python number: its type, its printed value and its integer part.
PyNumber(t, s, n) == [type |-> t, val |-> s, num |-> n]

\* ---- inputs the callers supply -------------------------------------------
JobNameInputs == {PyNone, PyInt("42"), PyStr(""), PyStr("job")}
ConfigInputs == {PyNone, PyDict, PyList}
NameInputs == {None, Some("x"), Some("map1")}
ParInputs == {None, Some(0), Some(MaxPar)}
SourceParInputs == {None, Some(MaxPar)}
\* the join scenario: sources of parallelism 1 (default), MaxPar, MaxPar + 1
JoinSourceParInputs == {None, Some(MaxPar), Some(MaxPar + 1)}
\* arguments of the name and num_partitions setters
NameAttrInputs == {PyStr("x"), PyInt("42")}
NumPartitionsInputs ==
  {PyNumber("int", "0", 0), PyNumber("int", "-1", -1),
   PyNumber("float", "2.5", 2), PyNumber("int", ToString(MaxPar), MaxPar)}
\* argument parallelism of repartition
RepartitionParInputs == {Some(0), Some(MaxPar)}
\* arguments of reduce_by_window and reduce_by_key_and_window
WindowInputs == {[duration |-> 10, sliding_interval |-> 5]}
FunctionInputs == {"reduce_function"}
ReduceNameInputs == {None, Some("x")}
ReduceParInputs == {None, Some(1), Some(MaxPar)}

Kinds == {"source", "map", "filter", "join", "repartition",
          "reducebykeyandwindow"}

VARIABLES
  kind,          \* node -> variant tag (the Streamlet subclass)
  parents,       \* node -> self._parents, an ordered sequence of nodes
  stage_name,    \* node -> self._stage_name, None or Some(string)
  parallelism,   \* node -> self._parallelism, None or Some(int)
  caller_name,   \* node -> the stage_name the caller passed to the factory
  caller_par,    \* node -> the parallelism the caller passed to the factory
  pc,            \* "idle" (no run in progress) or "build" (inside run)
  runs,          \* number of calls of run so far
  job,           \* run's argument name
  config,        \* run's argument config
  terminal,      \* the node run was called on (0 before the first run)
  todo,          \* the nodes _build still has to visit, in visiting order
  stage_names,   \* run's local dict stage_names (its key set)
  counters,      \* per variant: default names generated in this pass
  calls,         \* calls made on the assembly target in this run, in order
  error,         \* the error the current or last run raised, or NoError
  prev_terminal, \* the node the previous run was called on
  prev_emitted,  \* the <<name, parallelism>> pairs the previous run emitted
  defaulted,     \* the nodes given a default name in this pass, in order
  factory,       \* node -> the factory method that made it
  name_attr,     \* node -> self._name
  num_partitions \* node -> self._num_partitions

vars == <<kind, parents, stage_name, parallelism, caller_name, caller_par,
          pc, runs, job, config, terminal, todo, stage_names, counters,
          calls, error, prev_terminal, prev_emitted, defaulted, factory,
          name_attr, num_partitions>>

graph == <<kind, parents, caller_name, caller_par, factory>>
attrs == <<name_attr, num_partitions>>
passvars == <<runs, job, config, terminal, prev_terminal, prev_emitted>>

Nodes == 1..Len(kind)

\* ---- errors -------------------------------------------------------------
NoError == [type |-> "none", name |-> ""]
\* RuntimeError("Job Name has to be a string")
InvalidJobNameError == [type |-> "InvalidJobNameError", name |-> ""]
\* RuntimeError("config has to be a dict")
InvalidConfigurationError == [type |-> "InvalidConfigurationError", name |-> ""]
\* RuntimeError("duplicated stage name %s" % self._stage_name)
DuplicateStageNameError(nm) == [type |-> "DuplicateStageNameError", name |-> nm]
\* an error raised by the assembly target inside addStage / buildAndSubmit
AssemblyTargetError(op) == [type |-> "AssemblyTargetError", name |-> op]

\* ---- calls on the assembly target ---------------------------------------
NewBuilderCall(nm) ==
  [op |-> "newBuilder", node |-> 0, name |-> nm, par |-> 0, kind |-> "",
   upstream |-> << >>]
AddStageCall(n, nm, par, k, up) ==
  [op |-> "addStage", node |-> n, name |-> nm, par |-> par, kind |-> k,
   upstream |-> up]
SetConfigurationCall ==
  [op |-> "setConfiguration", node |-> 0, name |-> "", par |-> 0, kind |-> "",
   upstream |-> << >>]
BuildAndSubmitCall ==
  [op |-> "buildAndSubmit", node |-> 0, name |-> "", par |-> 0, kind |-> "",
   upstream |-> << >>]

\* ---- construction -------------------------------------------------------
Init ==
  /\ kind = << >>
  /\ parents = << >>
  /\ stage_name = << >>
  /\ parallelism = << >>
  /\ caller_name = << >>
  /\ caller_par = << >>
  /\ pc = "idle"
  /\ runs = 0
  /\ job = PyNone
  /\ config = PyNone
  /\ terminal = 0
  /\ todo = << >>
  /\ stage_names = {}
  /\ counters = [k \in Kinds |-> 0]
  /\ calls = << >>
  /\ error = NoError
  /\ prev_terminal = 0
  /\ prev_emitted = << >>
  /\ defaulted = << >>
  /\ factory = << >>
  /\ name_attr = << >>
  /\ num_partitions = << >>

\* The subclass constructors store parents, stage_name and parallelism
\* verbatim in the new node.  The graph is described first and run
\* afterwards: no node is created once run has been called.
Construct(fac, k, ps, nm, par) ==
  /\ pc = "idle"
  /\ runs = 0
  /\ Len(kind) < MaxNodes
  /\ kind' = Append(kind, k)
  /\ parents' = Append(parents, ps)
  /\ stage_name' = Append(stage_name, nm)
  /\ parallelism' = Append(parallelism, par)
  /\ caller_name' = Append(caller_name, nm)
  /\ caller_par' = Append(caller_par, par)
  /\ factory' = Append(factory, fac)
  /\ name_attr' = Append(name_attr, PyNone)
  /\ num_partitions' = Append(num_partitions, PyNumber("int", "1", 1))
  /\ UNCHANGED <<pc, todo, stage_names, counters, calls, error, defaulted>>
  /\ UNCHANGED passvars

\* A node of variant k made by the factory method of the same name.
NewNode(k, ps, nm, par) == Construct(k, k, ps, nm, par)

\* A source streamlet, made by a source factory outside this base class.
Source ==
  \E par \in SourceParInputs : NewNode("source", << >>, None, par)

\* Streamlet.map(map_function)
Map ==
  \E self \in Nodes : NewNode("map", <<self>>, None, None)

\* Streamlet.filter(filter_function, stage_name, parallelism)
Filter ==
  \E self \in Nodes, nm \in NameInputs, par \in ParInputs :
    NewNode("filter", <<self>>, nm, par)

\* Streamlet.join(join_streamlet, time_window), stage_name and parallelism
\* left at their defaults (None)
Join ==
  \E self \in Nodes, join_streamlet \in Nodes :
    NewNode("join", <<self, join_streamlet>>, None, None)

\* Streamlet.repartition(parallelism), stage_name left at its default
Repartition ==
  \E self \in Nodes, par \in RepartitionParInputs :
    Construct("repartition", "repartition", <<self>>, None, par)

\* The arguments reduce_by_window hands to ReduceByKeyAndWindowStreamlet.
ReduceByWindowNode_ParallelismUnset(self, tw, f, nm) ==
  [kind |-> "reducebykeyandwindow", time_window |-> tw, reduce_function |-> f,
   parents |-> <<self>>, stage_name |-> nm, parallelism |-> None]
ReduceByWindowNode(self, tw, f, nm) ==
  [kind |-> "reducebykeyandwindow", time_window |-> tw, reduce_function |-> f,
   parents |-> <<self>>, stage_name |-> nm, parallelism |-> Some(1)]

\* The arguments reduce_by_key_and_window hands to
\* ReduceByKeyAndWindowStreamlet.
ReduceByKeyAndWindowNode(self, tw, f, nm, par) ==
  [kind |-> "reducebykeyandwindow", time_window |-> tw, reduce_function |-> f,
   parents |-> <<self>>, stage_name |-> nm, parallelism |-> par]

\* Streamlet.reduce_by_window(time_window, reduce_function, stage_name)
ReduceByWindow ==
  \E self \in Nodes, tw \in WindowInputs, f \in FunctionInputs,
     nm \in ReduceNameInputs :
    LET node == ReduceByWindowNode(self, tw, f, nm)
    IN  Construct("reduce_by_window", node.kind, node.parents,
                  node.stage_name, node.parallelism)

\* Streamlet.reduce_by_key_and_window(time_window, reduce_function,
\* stage_name, parallelism)
ReduceByKeyAndWindow ==
  \E self \in Nodes, tw \in WindowInputs, f \in FunctionInputs,
     nm \in ReduceNameInputs, par \in ReduceParInputs :
    LET node == ReduceByKeyAndWindowNode(self, tw, f, nm, par)
    IN  Construct("reduce_by_key_and_window", node.kind, node.parents,
                  node.stage_name, node.parallelism)

\* The variables no setter touches.
notattrs == <<kind, parents, stage_name, parallelism, caller_name, caller_par,
              pc, runs, job, config, terminal, todo, stage_names, counters,
              calls, error, prev_terminal, prev_emitted, defaulted, factory>>

\* Streamlet.name setter: self._name = nm
SetName ==
  \E self \in Nodes, nm \in NameAttrInputs :
    /\ pc = "idle"
    /\ runs = 0
    /\ name_attr' = [name_attr EXCEPT ![self] = nm]
    /\ UNCHANGED num_partitions
    /\ UNCHANGED notattrs

\* Streamlet.num_partitions setter: self._num_partitions = n
SetNumPartitions ==
  \E self \in Nodes, n \in NumPartitionsInputs :
    /\ pc = "idle"
    /\ runs = 0
    /\ num_partitions' = [num_partitions EXCEPT ![self] = n]
    /\ UNCHANGED name_attr
    /\ UNCHANGED notattrs

\* ---- compilation --------------------------------------------------------
\* The order in which _build visits the nodes below n: each parent's whole
\* sub-graph in the order of self._parents, then n itself.
RECURSIVE BuildOrderFrom_SelfFirst(_, _)
BuildOrderFrom_SelfFirst(n, i) ==
  (IF i = 1 THEN <<n>> ELSE << >>)
  \o (IF i > Len(parents[n])
      THEN << >>
      ELSE BuildOrderFrom_SelfFirst(parents[n][i], 1)
           \o BuildOrderFrom_SelfFirst(n, i + 1))

RECURSIVE BuildOrderFrom_FirstParentSkipped(_, _)
BuildOrderFrom_FirstParentSkipped(n, i) ==
  IF i > Len(parents[n])
  THEN <<n>>
  ELSE (IF i = 1
        THEN << >>
        ELSE BuildOrderFrom_FirstParentSkipped(parents[n][i], 1))
       \o BuildOrderFrom_FirstParentSkipped(n, i + 1)

RECURSIVE BuildOrderFrom(_, _)
BuildOrderFrom(n, i) ==
  IF i > Len(parents[n])
  THEN <<n>>
  ELSE BuildOrderFrom(parents[n][i], 1) \o BuildOrderFrom(n, i + 1)

BuildOrder(n) == BuildOrderFrom(n, 1)

\* parent._parallelism > parallelism; an unset (None) parallelism compares
\* below every integer.
RECURSIVE MaxParallelism(_, _, _)
MaxParallelism(ps, i, acc) ==
  IF i > Len(ps)
  THEN acc
  ELSE LET p == parallelism[ps[i]]
       IN  MaxParallelism(ps, i + 1,
                          IF p # None /\ p[1] > acc THEN p[1] ELSE acc)

\* Streamlet._calculate_parallelism
CalculateParallelism(n) == MaxParallelism(parents[n], 1, 1)

\* The variant's tag in a default stage name.
Tag(k) == k

\* _calculate_stage_name of the variants: the tag and the per-pass counter
\* of that tag.
CalculateStageName_OneCounter(n) ==
  Tag(kind[n]) \o ToString(Len(defaulted) + 1)
CalculateStageName(n) == Tag(kind[n]) \o ToString(counters[kind[n]] + 1)

\* if self._parallelism is None: self._parallelism = ...
ResolveParallelism_AlwaysCalculated(n) == Some(CalculateParallelism(n))
ResolveParallelism(n) ==
  IF parallelism[n] = None THEN Some(CalculateParallelism(n)) ELSE parallelism[n]

\* if self._stage_name is None: self._stage_name = ...
ResolveStageName(n) ==
  IF stage_name[n] = None THEN Some(CalculateStageName(n)) ELSE stage_name[n]

\* self._stage_name in stage_names
IsDuplicate_Never(nm, names) == FALSE
IsDuplicate_Inverted(nm, names) == nm \notin names
IsDuplicate(nm, names) == nm \in names

\* stage_names[self._stage_name] = 1
RecordName_Forgotten(names, nm) == names
RecordName_Reset(names, nm) == {nm}
RecordName(names, nm) == names \cup {nm}

\* The names of the parents, the upstream references of the emitted stage.
UpstreamNames(n, names) ==
  [i \in 1..Len(parents[n]) |->
     IF names[parents[n][i]] = None THEN "" ELSE names[parents[n][i]][1]]

\* The stages added to the assembly target by the calls cs, as
\* <<name, parallelism>> pairs in the order of the calls.
Emitted(cs) ==
  LET st == SelectSeq(cs, LAMBDA c : c.op = "addStage")
  IN  [i \in 1..Len(st) |-> <<st[i].name, st[i].par>>]

\* stage_names = {}
NewStageNames_Leaked == stage_names
NewStageNames == {}

\* isinstance(name, str), name not None
IsValidJobName(nm) == nm # PyNone /\ nm.type = "str"

\* Streamlet.run up to the call of self._build
RunStart ==
  \E self \in Nodes, nm \in JobNameInputs, cfg \in ConfigInputs :
    /\ pc = "idle"
    /\ runs < MaxRuns
    /\ runs' = runs + 1
    /\ job' = nm
    /\ config' = cfg
    /\ terminal' = self
    /\ prev_terminal' = terminal
    /\ prev_emitted' = Emitted(calls)
    /\ IF IsValidJobName(nm)
       THEN /\ calls' = <<NewBuilderCall(nm.val)>>
            /\ error' = NoError
            /\ todo' = BuildOrder(self)
            /\ pc' = "build"
       ELSE /\ calls' = << >>
            /\ error' = InvalidJobNameError
            /\ todo' = << >>
            /\ pc' = "idle"
    /\ stage_names' = NewStageNames
    /\ counters' = [k \in Kinds |-> 0]
    /\ defaulted' = << >>
    /\ UNCHANGED <<stage_name, parallelism>>
    /\ UNCHANGED graph
    /\ UNCHANGED attrs

\* One visit of Streamlet._build, after the parents have been built: resolve
\* parallelism and name, check and record the name, emit with _build_this.
BuildNode ==
  /\ pc = "build"
  /\ todo # << >>
  /\ LET n == Head(todo)
         par == ResolveParallelism(n)
         nm == ResolveStageName(n)
         names == [stage_name EXCEPT ![n] = nm]
     IN  /\ parallelism' = [parallelism EXCEPT ![n] = par]
         /\ stage_name' = names
         /\ counters' = IF stage_name[n] = None
                        THEN [counters EXCEPT ![kind[n]] = @ + 1]
                        ELSE counters
         /\ defaulted' = IF stage_name[n] = None
                         THEN Append(defaulted, n)
                         ELSE defaulted
         /\ IF IsDuplicate(nm[1], stage_names)
            THEN /\ error' = DuplicateStageNameError(nm[1])
                 /\ pc' = "idle"
                 /\ todo' = << >>
                 /\ UNCHANGED <<stage_names, calls>>
            ELSE /\ stage_names' = RecordName(stage_names, nm[1])
                 /\ \/ /\ calls' = Append(calls,
                            AddStageCall(n, nm[1], par[1], kind[n],
                                         UpstreamNames(n, names)))
                       /\ todo' = Tail(todo)
                       /\ UNCHANGED <<pc, error>>
                    \/ /\ error' = AssemblyTargetError("addStage")
                       /\ pc' = "idle"
                       /\ todo' = << >>
                       /\ UNCHANGED calls
  /\ UNCHANGED graph
  /\ UNCHANGED attrs
  /\ UNCHANGED passvars

\* run with build_and_submit called before the configuration is examined
RunFinish_SubmitFirst ==
  /\ pc = "build"
  /\ todo = << >>
  /\ pc' = "idle"
  /\ calls' = calls \o <<BuildAndSubmitCall>>
               \o (IF config.type = "dict" THEN <<SetConfigurationCall>> ELSE << >>)
  /\ IF config # PyNone /\ config.type # "dict"
     THEN error' = InvalidConfigurationError
     ELSE \/ error' = NoError
          \/ error' = AssemblyTargetError("buildAndSubmit")
  /\ UNCHANGED <<stage_name, parallelism, todo, stage_names, counters,
                 defaulted>>
  /\ UNCHANGED graph
  /\ UNCHANGED attrs
  /\ UNCHANGED passvars

\* run with the configuration never applied to the builder
RunFinish_ConfigDropped ==
  /\ pc = "build"
  /\ todo = << >>
  /\ pc' = "idle"
  /\ IF config # PyNone /\ config.type # "dict"
     THEN /\ error' = InvalidConfigurationError
          /\ UNCHANGED calls
     ELSE /\ calls' = calls \o <<BuildAndSubmitCall>>
          /\ \/ error' = NoError
             \/ error' = AssemblyTargetError("buildAndSubmit")
  /\ UNCHANGED <<stage_name, parallelism, todo, stage_names, counters,
                 defaulted>>
  /\ UNCHANGED graph
  /\ UNCHANGED attrs
  /\ UNCHANGED passvars

\* Streamlet.run after self._build has returned
RunFinish ==
  /\ pc = "build"
  /\ todo = << >>
  /\ pc' = "idle"
  /\ IF config # PyNone /\ config.type # "dict"
     THEN /\ error' = InvalidConfigurationError
          /\ UNCHANGED calls
     ELSE /\ calls' = calls
               \o (IF config # PyNone THEN <<SetConfigurationCall>> ELSE << >>)
               \o <<BuildAndSubmitCall>>
          /\ \/ error' = NoError
             \/ error' = AssemblyTargetError("buildAndSubmit")
  /\ UNCHANGED <<stage_name, parallelism, todo, stage_names, counters,
                 defaulted>>
  /\ UNCHANGED graph
  /\ UNCHANGED attrs
  /\ UNCHANGED passvars

Next ==
  \/ Source
  \/ Map
  \/ Filter
  \/ Join
  \/ RunStart
  \/ BuildNode
  \/ RunFinish

Spec == Init /\ [][Next]_vars

\* ---- pre-compile configuration ------------------------------------------
\* Nodes are made by the source factory and by repartition and are
\* configured through the setters.
NextSetters ==
  \/ Source
  \/ Repartition
  \/ SetName
  \/ SetNumPartitions

SpecSetters == Init /\ [][NextSetters]_vars

\* ---- windowed reduce ------------------------------------------------------
\* Nodes are made by the source factory and by the two reduce factories and
\* are then run.
NextReduce ==
  \/ Source
  \/ ReduceByWindow
  \/ ReduceByKeyAndWindow
  \/ RunStart
  \/ BuildNode
  \/ RunFinish

SpecReduce == Init /\ [][NextReduce]_vars

\* ---- the join scenario ----------------------------------------------------
\* s1 and s2 are sources, f1 = s1.filter(..., parallelism), f2 =
\* s2.filter(..., parallelism), and the join is left.join(right, window) with
\* left one of s1, f1 and right one of s2, f2.
InitJoin ==
  \E p1 \in JoinSourceParInputs, p2 \in JoinSourceParInputs,
     q1 \in ParInputs, q2 \in ParInputs, left \in {1, 3}, right \in {2, 4} :
    /\ kind = <<"source", "source", "filter", "filter", "join">>
    /\ factory = <<"source", "source", "filter", "filter", "join">>
    /\ parents = << << >>, << >>, <<1>>, <<2>>, <<left, right>> >>
    /\ stage_name = <<None, None, None, None, None>>
    /\ caller_name = <<None, None, None, None, None>>
    /\ parallelism = <<p1, p2, q1, q2, None>>
    /\ caller_par = <<p1, p2, q1, q2, None>>
    /\ name_attr = [n \in 1..5 |-> PyNone]
    /\ num_partitions = [n \in 1..5 |-> PyNumber("int", "1", 1)]
    /\ pc = "idle"
    /\ runs = 0
    /\ job = PyNone
    /\ config = PyNone
    /\ terminal = 0
    /\ todo = << >>
    /\ stage_names = {}
    /\ counters = [k \in Kinds |-> 0]
    /\ calls = << >>
    /\ error = NoError
    /\ prev_terminal = 0
    /\ prev_emitted = << >>
    /\ defaulted = << >>

NextJoin ==
  \/ RunStart
  \/ BuildNode
  \/ RunFinish

SpecJoin == InitJoin /\ [][NextJoin]_vars

\* ---- properties -----------------------------------------------------------
\* The nodes _build visits when started on t.
Reach(t) == {BuildOrder(t)[i] : i \in 1..Len(BuildOrder(t))}

\* The positions of the addStage calls of the current run.
StageCalls == {i \in DOMAIN calls : calls[i].op = "addStage"}

\* How often node n has been emitted in the current run.
EmitCount(n) == Cardinality({i \in StageCalls : calls[i].node = n})

\* C1: in the first pass over a graph whose nodes all take default names
\* and in which no node names the same parent twice, started with valid
\* arguments and with no failing emission call, every node reachable from
\* the terminal node, also one that is a parent of two different nodes, is
\* emitted exactly once and the pass does not fail.
C1_SharedNodeEmittedOnce ==
  ( /\ runs = 1
    /\ pc = "idle"
    /\ IsValidJobName(job)
    /\ config \in {PyNone, PyDict}
    /\ error.type # "AssemblyTargetError"
    /\ \A n \in Reach(terminal) :
         /\ caller_name[n] = None
         /\ Len(parents[n]) = 2 => parents[n][1] # parents[n][2] )
  => ( /\ error = NoError
       /\ \A n \in Reach(terminal) : EmitCount(n) = 1 )

\* C2: at every point of every pass the names of the stages emitted so far
\* are pairwise distinct.
C2_EmittedNamesDistinct ==
  \A i \in StageCalls, j \in StageCalls :
    i # j => calls[i].name # calls[j].name

\* Three stages have been emitted in one pass, one of them under a name the
\* caller supplied.
C2_Witness ==
  /\ Cardinality(StageCalls) = 3
  /\ \E i \in StageCalls : caller_name[calls[i].node] # None

\* C3: every parent of an emitted node was emitted earlier in the same pass.
C3_ParentsEmittedFirst ==
  \A i \in StageCalls :
    \A k \in 1..Len(parents[calls[i].node]) :
      \E j \in StageCalls :
        j < i /\ calls[j].node = parents[calls[i].node][k]

\* A join of two different parents has been emitted.
C3_Witness ==
  \E i \in StageCalls :
    /\ kind[calls[i].node] = "join"
    /\ parents[calls[i].node][1] # parents[calls[i].node][2]

\* The largest resolved parallelism among the parents of n, 1 without parents.
ParentMax(n) ==
  IF parents[n] = << >>
  THEN 1
  ELSE CHOOSE m \in {parallelism[parents[n][k]][1] : k \in 1..Len(parents[n])} :
         \A k \in 1..Len(parents[n]) : parallelism[parents[n][k]][1] <= m

\* C4: every emitted stage has a parallelism >= 1, and where the caller set
\* none it is the maximum of the parents' resolved parallelisms, or 1 for a
\* node without parents.
C4_ParallelismResolved ==
  \A i \in StageCalls :
    /\ calls[i].par >= 1
    /\ caller_par[calls[i].node] = None => calls[i].par = ParentMax(calls[i].node)

\* Node n carries a caller-supplied name that a different node, already
\* emitted in this pass, carries too.
SecondOfPair(n) ==
  /\ caller_name[n] # None
  /\ \E i \in StageCalls :
       /\ calls[i].node # n
       /\ caller_name[calls[i].node] = caller_name[n]

\* C5: when _build reaches the second of two distinct nodes that carry the
\* same caller-supplied name, the pass fails with DuplicateStageNameError
\* carrying that name and the second node is not emitted.
C5_DuplicateNameRejected ==
  [][ (pc = "build" /\ todo # << >> /\ SecondOfPair(Head(todo)))
      => ( /\ error' = DuplicateStageNameError(caller_name[Head(todo)][1])
           /\ pc' = "idle"
           /\ calls' = calls ) ]_vars

\* A pass has failed with DuplicateStageNameError for a name two distinct
\* nodes were given by the caller: the first is emitted, the second is not.
C5_Witness ==
  /\ error.type = "DuplicateStageNameError"
  /\ \E m \in Reach(terminal), n \in Reach(terminal) :
       /\ m # n
       /\ caller_name[m] = Some(error.name)
       /\ caller_name[n] = Some(error.name)
       /\ EmitCount(m) = 1
       /\ EmitCount(n) = 0

\* C6: a run that ended in an invalid job name, an invalid configuration, a
\* duplicate stage name or a failed emission call has not called
\* buildAndSubmit.
C6_NoSubmitOnError ==
  ( \/ error.type \in {"InvalidJobNameError", "InvalidConfigurationError",
                       "DuplicateStageNameError"}
    \/ error = AssemblyTargetError("addStage") )
  => \A i \in DOMAIN calls : calls[i].op # "buildAndSubmit"

\* A run has failed on its configuration after stages were emitted.
C6_Witness ==
  /\ error = InvalidConfigurationError
  /\ Cardinality(StageCalls) >= 2

\* C7: a run whose job name is not a non-empty string fails with
\* InvalidJobNameError, with no builder created and no stage emitted.
C7_InvalidJobNameRejected ==
  (runs > 0 /\ (job.type # "str" \/ job.val = ""))
  => (error = InvalidJobNameError /\ calls = << >> /\ pc = "idle")

\* C8: a run with a valid job name and a configuration that is not a mapping
\* creates no builder and adds no stage, and ends in
\* InvalidConfigurationError.
C8_InvalidConfigRejectedFirst ==
  (runs > 0 /\ IsValidJobName(job) /\ config # PyNone /\ config.type # "dict")
  => (calls = << >> /\ (pc = "idle" => error = InvalidConfigurationError))

\* C9: the calls on the assembly target are newBuilder first, then the
\* addStage calls, then setConfiguration, then buildAndSubmit; a run that
\* completed without error created the builder for its job name, applied
\* the configuration exactly once iff one was supplied, and submitted
\* exactly once, as its last call.
C9_CallOrder ==
  /\ \A i \in DOMAIN calls :
       /\ calls[i].op = "newBuilder" <=> i = 1
       /\ calls[i].op = "addStage" =>
            \A j \in 1..(i - 1) : calls[j].op \in {"newBuilder", "addStage"}
       /\ calls[i].op = "setConfiguration" =>
            /\ i = Len(calls) - 1
            /\ calls[i - 1].op \in {"newBuilder", "addStage"}
       /\ calls[i].op = "buildAndSubmit" => i = Len(calls)
  /\ (runs > 0 /\ pc = "idle" /\ error = NoError) =>
       /\ calls # << >>
       /\ calls[1] = NewBuilderCall(job.val)
       /\ calls[Len(calls)].op = "buildAndSubmit"
       /\ Cardinality({i \in DOMAIN calls : calls[i].op = "setConfiguration"})
            = (IF config # PyNone THEN 1 ELSE 0)
       /\ Cardinality(StageCalls) = Len(BuildOrder(terminal))

\* A run with a configuration has completed after emitting two stages.
C9_Witness ==
  /\ runs > 0
  /\ pc = "idle"
  /\ error = NoError
  /\ config = PyDict
  /\ Cardinality(StageCalls) >= 2

\* C10: in a pass on the terminal node of the previous pass, the i-th
\* emitted stage has the name and the parallelism of the i-th stage the
\* previous pass emitted, and when the previous pass emitted the whole graph
\* this pass does not fail on a duplicate stage name.
C10_SecondPassSame ==
  (runs >= 2 /\ terminal = prev_terminal) =>
    /\ \A i \in 1..Len(Emitted(calls)) :
         i <= Len(prev_emitted) => Emitted(calls)[i] = prev_emitted[i]
    /\ Len(prev_emitted) = Len(BuildOrder(terminal)) =>
         error.type # "DuplicateStageNameError"

\* Two passes on the same terminal node have both emitted the whole graph,
\* which has a node named by default.
C10_Witness ==
  /\ runs = 2
  /\ terminal = prev_terminal
  /\ pc = "idle"
  /\ error = NoError
  /\ Len(prev_emitted) >= 2
  /\ Emitted(calls) = prev_emitted
  /\ \E n \in Reach(terminal) : caller_name[n] = None

\* How many of the first i nodes named by default in this pass are of the
\* variant of the i-th.
KthOfKind(i) ==
  Cardinality({j \in 1..i : kind[defaulted[j]] = kind[defaulted[i]]})

C13_ChainEmission ==
  \A i \in StageCalls :
    LET n == calls[i].node
    IN  /\ caller_name[n] # None => calls[i].name = caller_name[n][1]
        /\ caller_par[n] # None => calls[i].par = caller_par[n][1]
        /\ i = 2 => parents[n] = << >>
        /\ Len(parents[n]) = 1 =>
             /\ i - 1 \in StageCalls
             /\ calls[i - 1].node = parents[n][1]
             /\ calls[i].upstream = <<calls[i - 1].name>>

\* The chain source -> map -> filter named "x" with parallelism MaxPar has
\* been emitted.
C13_Witness ==
  /\ Len(kind) = 3
  /\ kind = <<"source", "map", "filter">>
  /\ parents = << << >>, <<1>>, <<2>> >>
  /\ caller_par[1] = None
  /\ Emitted(calls) = << <<"source1", 1>>, <<"map1", 1>>, <<"x", MaxPar>> >>

\* C16: when _build is about to compute the default parallelism of a node,
\* every parent of the node has a parallelism.
C16_ParentsResolvedFirst ==
  (pc = "build" /\ todo # << >> /\ parallelism[Head(todo)] = None)
  => \A k \in 1..Len(parents[Head(todo)]) :
       parallelism[parents[Head(todo)][k]] # None

\* _build is about to compute the parallelism of a join of two different
\* nodes.
C16_Witness ==
  /\ pc = "build"
  /\ todo # << >>
  /\ parallelism[Head(todo)] = None
  /\ Len(parents[Head(todo)]) = 2
  /\ parents[Head(todo)][1] # parents[Head(todo)][2]

\* _build visits some node below t twice.
Shared(t) ==
  \E i \in 1..Len(BuildOrder(t)), j \in 1..Len(BuildOrder(t)) :
    i # j /\ BuildOrder(t)[i] = BuildOrder(t)[j]

\* Two different nodes below t carry the same caller-supplied name.
SameCallerName(t) ==
  \E m \in Reach(t), n \in Reach(t) :
    m # n /\ caller_name[m] # None /\ caller_name[m] = caller_name[n]

\* nm has the shape of a default name: a variant's tag and a number.
DefaultShaped(nm) ==
  \E k \in Kinds, i \in 1..(MaxNodes + 1) : nm = Tag(k) \o ToString(i)

\* Node n had its name when the current pass started.
HeldAtStart(n) ==
  /\ stage_name[n] # None
  /\ \A i \in DOMAIN defaulted : defaulted[i] # n

C18_StageNamesAreEmitted ==
  pc = "build" =>
    /\ stage_names = {calls[i].name : i \in StageCalls}
    /\ Cardinality(stage_names) = Cardinality(StageCalls)

\* A pass is under way with two names recorded.
C18_Witness ==
  /\ pc = "build"
  /\ Cardinality(stage_names) = 2

\* The larger of two integers.
Larger(a, b) == IF a >= b THEN a ELSE b

\* C12: an emitted join has its two parents in the order left, right, is
\* emitted after both, has the larger of their resolved parallelisms and
\* their resolved names, left then right, as upstream references.
C12_JoinResolved ==
  \A i \in StageCalls :
    kind[calls[i].node] = "join" =>
      LET n == calls[i].node
      IN  /\ Len(parents[n]) = 2
          /\ \E j \in StageCalls, k \in StageCalls :
               /\ j < i /\ calls[j].node = parents[n][1]
               /\ k < i /\ calls[k].node = parents[n][2]
               /\ calls[i].par = Larger(calls[j].par, calls[k].par)
               /\ calls[i].upstream = <<calls[j].name, calls[k].name>>

\* C14: a name that is not a string and a parallelism that is not a positive
\* integer are rejected at the call that supplies them, so that no node
\* ever holds one.
C14_InvalidConfigurationRejected ==
  \A n \in Nodes :
    /\ name_attr[n].type \in {"NoneType", "str"}
    /\ num_partitions[n].type = "int" /\ num_partitions[n].num >= 1
    /\ parallelism[n] # None => parallelism[n][1] >= 1

\* C15: reduce_by_window builds the node reduce_by_key_and_window builds
\* for parallelism 1 (same variant, parents, parameters, name and
\* parallelism); a node made by reduce_by_window is emitted as a
\* reducebykeyandwindow stage of parallelism 1, and a pass on it emits the
\* stages a pass on its reduce_by_key_and_window twin emits.
C15_ReduceByWindowIsShortcut ==
  /\ \A self \in Nodes, tw \in WindowInputs, f \in FunctionInputs,
        nm \in ReduceNameInputs :
       ReduceByWindowNode(self, tw, f, nm)
         = ReduceByKeyAndWindowNode(self, tw, f, nm, Some(1))
  /\ \A n \in Nodes :
       factory[n] = "reduce_by_window" =>
         /\ kind[n] = "reducebykeyandwindow"
         /\ caller_par[n] = Some(1)
         /\ Len(parents[n]) = 1
  /\ \A i \in StageCalls :
       factory[calls[i].node] = "reduce_by_window" =>
         calls[i].par = 1 /\ calls[i].kind = "reducebykeyandwindow"
  /\ ( /\ runs >= 2
       /\ factory[prev_terminal] = "reduce_by_window"
       /\ factory[terminal] = "reduce_by_key_and_window"
       /\ parents[terminal] = parents[prev_terminal]
       /\ caller_name[terminal] = caller_name[prev_terminal]
       /\ caller_par[terminal] = Some(1) )
     => \A i \in 1..Len(Emitted(calls)) :
          i <= Len(prev_emitted) => Emitted(calls)[i] = prev_emitted[i]

\* A pass on a node made by reduce_by_window and then a pass on a node made
\* by reduce_by_key_and_window with parallelism 1 on the same parent have
\* emitted the same two stages.
C15_Witness ==
  /\ runs = 2
  /\ factory[prev_terminal] = "reduce_by_window"
  /\ factory[terminal] = "reduce_by_key_and_window"
  /\ parents[terminal] = parents[prev_terminal]
  /\ caller_name[terminal] = caller_name[prev_terminal]
  /\ caller_par[terminal] = Some(1)
  /\ Len(prev_emitted) = 2
  /\ Emitted(calls) = prev_emitted

====
